---- MODULE Spec2Model ----
(***************************************************************************)
(* Model of the LinkedIn post enrichment pipeline (src/preprocess.py):     *)
(* process_posts loads a batch, runs extract_metadata on every post that   *)
(* has a text, calls get_unified_tags once, rewrites every post's tags     *)
(* through the returned mapping and writes the enriched batch.             *)
(*                                                                         *)
(* Strings of post text are kept run-length encoded: a text is a sequence  *)
(* of runs [k, n], n >= 1 characters of kind k, adjacent runs of different *)
(* kinds.  Kinds: "c" an ordinary character, "n" the newline '\n', "q" a   *)
(* curly quote (one of the characters ftfy's fix_text replaces).           *)
(* JSON values are tagged records: Null, Num, Str, Text, Arr, Obj.  A      *)
(* Python dict is a function from its keys to JSON values.                 *)
(***************************************************************************)
EXTENDS Integers, Sequences, FiniteSets, TLC

VARIABLES raw_file, out_file, pc, posts, i, metadata, enriched_posts,
          unified_tags, calls, log

vars == <<raw_file, out_file, pc, posts, i, metadata, enriched_posts,
          unified_tags, calls, log>>

\* Largest number of posts in an input batch.
MaxPosts == 2

\* src/preprocess.py:47
MAX_LENGTH == 2000

-----------------------------------------------------------------------------
\* Text (run-length encoded strings)

Run(k, n) == [k |-> k, n |-> n]

\* len(s)
RECURSIVE TextLen(_)
TextLen(s) == IF s = <<>> THEN 0 ELSE s[1].n + TextLen(Tail(s))

\* s.count(ch) for a character of kind k
RECURSIVE Count(_, _)
Count(s, k) ==
    IF s = <<>> THEN 0
    ELSE (IF s[1].k = k THEN s[1].n ELSE 0) + Count(Tail(s), k)

\* a + b on strings
Cat(a, b) ==
    IF a = <<>> THEN b
    ELSE IF b = <<>> THEN a
    ELSE IF a[Len(a)].k = b[1].k
         THEN SubSeq(a, 1, Len(a) - 1)
              \o <<Run(b[1].k, a[Len(a)].n + b[1].n)>> \o Tail(b)
         ELSE a \o b

\* s[:m]
RECURSIVE Slice(_, _)
Slice(s, m) ==
    IF s = <<>> \/ m <= 0 THEN <<>>
    ELSE IF s[1].n <= m THEN Cat(<<s[1]>>, Slice(Tail(s), m - s[1].n))
    ELSE <<Run(s[1].k, m)>>

\* the literal "..."
Dots == <<Run("c", 3)>>

\* ftfy.fix_text: every curly quote becomes a straight one, an ordinary
\* character; the other characters are kept.
RECURSIVE fix_text(_)
fix_text(s) ==
    IF s = <<>> THEN <<>>
    ELSE Cat(<<Run(IF s[1].k = "q" THEN "c" ELSE s[1].k, s[1].n)>>,
             fix_text(Tail(s)))

-----------------------------------------------------------------------------
\* JSON values

Null == [t |-> "null"]
Num(n) == [t |-> "num", n |-> n]
Str(s) == [t |-> "str", s |-> s]
Text(runs) == [t |-> "str", runs |-> runs]
Arr(items) == [t |-> "arr", items |-> items]
Obj(f) == [t |-> "obj", f |-> f]

\* d.get(key, default)
Get(d, key, default) == IF key \in DOMAIN d THEN d[key] ELSE default

\* {**a, **b}
Merge(a, b) ==
    [key \in DOMAIN a \cup DOMAIN b |->
        IF key \in DOMAIN b THEN b[key] ELSE a[key]]

-----------------------------------------------------------------------------
\* Inputs: the posts an input file may hold

PostA == [text |-> Text(<<Run("c", 5)>>), engagement |-> Num(7)]

PostB == [text |-> Text(<<Run("q", 1), Run("c", 3), Run("n", 1), Run("c", 2)>>),
          tags |-> Arr(<<Str("Old")>>)]

PostC == [text |-> Text(<<Run("c", MAX_LENGTH), Run("n", 1), Run("c", 1)>>)]

PostD == [engagement |-> Num(3)]

PostShapes == {PostA, PostB, PostC, PostD}

Batches == UNION {[1..n -> PostShapes] : n \in 0..MaxPosts}

\* What open() and json.load() can find at raw_file_path.
InputFiles ==
    {[status |-> "missing"], [status |-> "bad_encoding"], [status |-> "bad_json"]}
    \cup {[status |-> "ok", posts |-> b] : b \in Batches}

-----------------------------------------------------------------------------
\* The completion service: what chain.invoke and json_parser.parse can yield.
\* "raise": chain.invoke raises; "text": the content is not JSON
\* (OutputParserException); "json": the content parses to value.

Raises == [kind |-> "raise"]
NotJson == [kind |-> "text"]
Json(v) == [kind |-> "json", value |-> v]

ExtractResponses ==
    { Raises, NotJson,
      Json(Obj([line_count |-> Num(1), language |-> Str("English"),
                tags |-> Arr(<<Str("Motivation")>>)])),
      Json(Obj([line_count |-> Num(2), language |-> Str("English"),
                tags |-> Arr(<<Str("Jobseekers"), Str("Job Hunting")>>)])),
      Json(Obj([line_count |-> Num(1), language |-> Str("Hinglish"),
                tags |-> Arr(<<Str("Motivation"), Str("Jobseekers"),
                               Str("Job Hunting")>>)])),
      Json(Obj([language |-> Str("English"), engagement |-> Num(0)])),
      Json(Obj([line_count |-> Num(1), language |-> Str("English"),
                tags |-> Null])),
      Json(Arr(<<>>)) }

UnifyResponses ==
    { Raises, NotJson,
      Json(Obj([Jobseekers |-> Str("Job Search")]
               @@ ("Job Hunting" :> Str("Job Search")))),
      Json(Obj([Motivation |-> Str("Motivation"), Old |-> Str("Legacy")])),
      Json(Arr(<<>>)) }

\* sorted() over the tags the service and the inputs can produce
TagOrder == <<"Job Hunting", "Jobseekers", "Motivation", "Old">>

-----------------------------------------------------------------------------
\* extract_metadata

\* MAX_LENGTH truncation of the parameter post
Truncated(post) ==
    IF TextLen(post) > MAX_LENGTH THEN Cat(Slice(post, MAX_LENGTH), Dots)
    ELSE post

\* the record both except branches return; post is the truncated text
Fallback(post) ==
    Obj([line_count |-> Num(Count(post, "n") + 1),
         language |-> Str("Unknown"),
         tags |-> Arr(<<>>)])

extract_metadata(post, resp) ==
    IF resp.kind = "json" THEN resp.value ELSE Fallback(Truncated(post))

\* the diagnostics the except branches print
Diagnostic(resp, parse_msg, other_msg) ==
    IF resp.kind = "text" THEN <<parse_msg>>
    ELSE IF resp.kind = "raise" THEN <<other_msg>>
    ELSE <<>>

-----------------------------------------------------------------------------
\* get_unified_tags

\* post.get('tags', [])
TagsOf(post) == Get(post, "tags", Arr(<<>>))

\* set.update(x) raises TypeError unless x is iterable
Iterable(v) == v.t = "arr"

RECURSIVE UniqueTags(_)
UniqueTags(posts_with_metadata) ==
    IF posts_with_metadata = <<>> THEN {}
    ELSE {TagsOf(posts_with_metadata[1]).items[k].s :
              k \in 1..Len(TagsOf(posts_with_metadata[1]).items)}
         \cup UniqueTags(Tail(posts_with_metadata))

\* sorted(unique_tags), the list joined into the prompt
SortedTags(unique_tags) == SelectSeq(TagOrder, LAMBDA tag : tag \in unique_tags)

\* Mutant: the fallback returns an empty dict
IdentityMap_Empty(unique_tags) == Obj([tag \in {} |-> Str(tag)])

\* {tag: tag for tag in unique_tags}
IdentityMap(unique_tags) == Obj([tag \in unique_tags |-> Str(tag)])

get_unified_tags(posts_with_metadata, resp) ==
    IF resp.kind = "json" THEN resp.value
    ELSE IdentityMap(UniqueTags(posts_with_metadata))

\* Mutant: the service is not called when no tag was collected
UnifyCalls_SkipEmpty(posts_with_metadata, resp) ==
    IF UniqueTags(posts_with_metadata) = {} THEN <<>>
    ELSE << [fn |-> "get_unified_tags",
             prompt |-> SortedTags(UniqueTags(posts_with_metadata)),
             resp |-> resp] >>

\* the calls get_unified_tags makes to the service
UnifyCalls(posts_with_metadata, resp) ==
    << [fn |-> "get_unified_tags",
        prompt |-> SortedTags(UniqueTags(posts_with_metadata)),
        resp |-> resp] >>

-----------------------------------------------------------------------------
\* process_posts

\* unified_tags.get(tag, tag)
UnifyTag(unified, tag) == Get(unified.f, tag.s, tag)

RECURSIVE Dedup(_)
Dedup(s) ==
    IF s = <<>> THEN <<>>
    ELSE LET r == Dedup(SubSeq(s, 1, Len(s) - 1))
         IN  IF \E j \in 1..Len(r) : r[j] = s[Len(s)] THEN r
             ELSE Append(r, s[Len(s)])

\* Mutant: the rewritten tags are deduplicated
RewriteTags_Dedup(unified, current_tags) ==
    Dedup([k \in 1..Len(current_tags) |-> UnifyTag(unified, current_tags[k])])

\* [unified_tags.get(tag, tag) for tag in current_tags]
RewriteTags(unified, current_tags) ==
    [k \in 1..Len(current_tags) |-> UnifyTag(unified, current_tags[k])]

\* Mutant: break instead of continue
IndexAfterSkip_Break(idx, n) == n + 1

\* the index the loop looks at after a post without 'text' (continue)
IndexAfterSkip(idx, n) == idx + 1

\* where process_posts goes once posts[idx] is dealt with
AfterPost(idx, n) == IF idx > n THEN "unify" ELSE "loop"

\* Mutant: no handler for UnicodeDecodeError
LoadOutcome_NoUnicodeHandler(file) ==
    CASE file.status = "ok" ->
           [pc |-> IF Len(file.posts) = 0 THEN "unify" ELSE "loop",
            posts |-> file.posts, log |-> <<>>]
      [] file.status = "bad_json" ->
           [pc |-> "aborted", posts |-> <<>>, log |-> <<"json_decode_error">>]
      [] OTHER ->
           [pc |-> "crashed", posts |-> <<>>, log |-> <<>>]

\* what the try block around open/json.load leaves: where control goes,
\* the posts loaded and the diagnostics printed
LoadOutcome(file) ==
    CASE file.status = "ok" ->
           [pc |-> AfterPost(1, Len(file.posts)), posts |-> file.posts,
            log |-> <<>>]
      [] file.status = "bad_encoding" ->
           [pc |-> "aborted", posts |-> <<>>, log |-> <<"unicode_decode_error">>]
      [] file.status = "bad_json" ->
           [pc |-> "aborted", posts |-> <<>>, log |-> <<"json_decode_error">>]
      [] OTHER ->
           [pc |-> "crashed", posts |-> <<>>, log |-> <<>>]

NoValue == [t |-> "none"]
NoFile == [status |-> "absent"]

Init ==
    /\ raw_file \in InputFiles
    /\ out_file = NoFile
    /\ pc = "load"
    /\ posts = <<>>
    /\ i = 1
    /\ metadata = NoValue
    /\ enriched_posts = <<>>
    /\ unified_tags = NoValue
    /\ calls = <<>>
    /\ log = <<>>

Load ==
    /\ pc = "load"
    /\ LET r == LoadOutcome(raw_file) IN
         /\ pc' = r.pc
         /\ posts' = r.posts
         /\ log' = log \o r.log
    /\ UNCHANGED <<raw_file, out_file, i, metadata, enriched_posts,
                   unified_tags, calls>>

\* one pass of the for loop over a post without 'text'
Skip ==
    /\ pc = "loop"
    /\ "text" \notin DOMAIN posts[i]
    /\ i' = IndexAfterSkip(i, Len(posts))
    /\ pc' = AfterPost(i', Len(posts))
    /\ UNCHANGED <<raw_file, out_file, posts, metadata, enriched_posts,
                   unified_tags, calls, log>>

\* one pass of the for loop over a post with 'text'
Enrich ==
    /\ pc = "loop"
    /\ "text" \in DOMAIN posts[i]
    /\ \E resp \in ExtractResponses :
         LET text == fix_text(posts[i].text.runs)
             post == [posts[i] EXCEPT !.text = Text(text)]
             md == extract_metadata(text, resp)
         IN  /\ posts' = [posts EXCEPT ![i] = post]
             /\ calls' = Append(calls, [fn |-> "extract_metadata", arg |-> text,
                                        prompt |-> Truncated(text), resp |-> resp])
             /\ log' = log \o Diagnostic(resp, "metadata_parse_failed",
                                         "metadata_unexpected_error")
             /\ metadata' = md
             /\ IF md.t = "obj"
                THEN /\ enriched_posts' = Append(enriched_posts, Merge(post, md.f))
                     /\ i' = i + 1
                     /\ pc' = AfterPost(i', Len(posts))
                ELSE \* {**post, **metadata}: TypeError, metadata is no mapping
                     /\ pc' = "crashed"
                     /\ UNCHANGED <<enriched_posts, i>>
    /\ UNCHANGED <<raw_file, out_file, unified_tags>>

Unify ==
    /\ pc = "unify"
    /\ IF \E k \in 1..Len(enriched_posts) : ~Iterable(TagsOf(enriched_posts[k]))
       THEN \* unique_tags.update(...): TypeError, outside the try block
            /\ pc' = "crashed"
            /\ UNCHANGED <<unified_tags, calls, log>>
       ELSE \E resp \in UnifyResponses :
            /\ unified_tags' = get_unified_tags(enriched_posts, resp)
            /\ calls' = calls \o UnifyCalls(enriched_posts, resp)
            /\ log' = log \o Diagnostic(resp, "unify_parse_failed",
                                        "unify_unexpected_error")
            /\ pc' = "rewrite"
    /\ UNCHANGED <<raw_file, out_file, posts, i, metadata, enriched_posts>>

\* the for loop over enriched_posts
Rewrite ==
    /\ pc = "rewrite"
    /\ IF /\ unified_tags.t # "obj"
          /\ \E k \in 1..Len(enriched_posts) : TagsOf(enriched_posts[k]).items # <<>>
       THEN \* unified_tags.get: AttributeError, unified_tags is no dict
            /\ pc' = "crashed"
            /\ UNCHANGED enriched_posts
       ELSE /\ enriched_posts' =
                 [k \in 1..Len(enriched_posts) |->
                     Merge(enriched_posts[k],
                           [tags |-> Arr(RewriteTags(unified_tags,
                                            TagsOf(enriched_posts[k]).items))])]
            /\ pc' = "write"
    /\ UNCHANGED <<raw_file, out_file, posts, i, metadata, unified_tags,
                   calls, log>>

\* json.dump into processed_file_path; open or the write may fail
Write ==
    /\ pc = "write"
    /\ \/ /\ out_file' = [status |-> "written", content |-> enriched_posts]
          /\ log' = Append(log, "saved")
       \/ /\ out_file' \in {NoFile, [status |-> "partial"]}
          /\ log' = Append(log, "save_error")
    /\ pc' = "done"
    /\ UNCHANGED <<raw_file, posts, i, metadata, enriched_posts, unified_tags,
                   calls>>

Next == Load \/ Skip \/ Enrich \/ Unify \/ Rewrite \/ Write

Spec == Init /\ [][Next]_vars

-----------------------------------------------------------------------------
\* Vocabulary of the properties

\* the input posts that have a 'text', in input order
TextPosts == SelectSeq(raw_file.posts, LAMBDA post : "text" \in DOMAIN post)

ExtractCalls == SelectSeq(calls, LAMBDA call : call.fn = "extract_metadata")
UnifyCallsMade == SelectSeq(calls, LAMBDA call : call.fn = "get_unified_tags")

Loaded == raw_file.status = "ok" /\ pc # "load"
Written == out_file.status = "written"
Failed(resp) == resp.kind # "json"

\* the record the loop body builds from an input post and the service's answer
EnrichedFrom(post, resp) ==
    LET text == fix_text(post.text.runs)
    IN  Merge([post EXCEPT !.text = Text(text)], extract_metadata(text, resp).f)

\* the k-th enriched record as it is before the tags are rewritten
PreUnification(k) == EnrichedFrom(TextPosts[k], ExtractCalls[k].resp)

-----------------------------------------------------------------------------
\* C1 (as claimed): whenever the batch loads, whatever the service answers,
\* process_posts reaches the output write, and the batch written holds one
\* record per input post with a text, in input order.
C1_AlwaysOneRecordPerPost ==
    Loaded =>
        /\ pc # "crashed"
        /\ Written =>
             /\ Len(out_file.content) = Len(TextPosts)
             /\ \A k \in 1..Len(TextPosts) :
                  out_file.content[k].text
                      = Text(fix_text(TextPosts[k].text.runs))

\* C2 (as claimed): when extraction fails, the record returned has
\* line_count = (number of '\n' in the text extract_metadata was given,
\* untruncated) + 1, language "Unknown" and no tags, for texts of any length.
C2_FallbackCountsOriginalText ==
    (ExtractCalls # <<>> /\ Failed(ExtractCalls[Len(ExtractCalls)].resp)) =>
        metadata = Obj([line_count |->
                            Num(Count(ExtractCalls[Len(ExtractCalls)].arg, "n") + 1),
                        language |-> Str("Unknown"),
                        tags |-> Arr(<<>>)])

\* C3 (as claimed): every record written keeps every field of its input post
\* with the input's value, whatever keys the post and the extraction result
\* carry.
C3_OriginalFieldsPreserved ==
    (Loaded /\ Written) =>
        \A k \in 1..Len(out_file.content) :
            \A key \in DOMAIN TextPosts[k] :
                /\ key \in DOMAIN out_file.content[k]
                /\ out_file.content[k][key] = TextPosts[k][key]

\* C4 (as claimed): a run over a loaded batch with N posts that have a text
\* issues exactly N+1 calls: N extraction calls, one per such post in input
\* order, then one unification call.
C4_ExactlyNPlusOneCalls ==
    (Loaded /\ pc \in {"done", "crashed"}) =>
        /\ Len(calls) = Len(TextPosts) + 1
        /\ \A k \in 1..Len(TextPosts) :
             /\ calls[k].fn = "extract_metadata"
             /\ calls[k].arg = fix_text(TextPosts[k].text.runs)
        /\ calls[Len(calls)].fn = "get_unified_tags"

C6_TextlessPostsSkipped ==
    Loaded =>
        /\ Len(ExtractCalls) <= Len(TextPosts)
        /\ Len(enriched_posts) <= Len(ExtractCalls)
        /\ pc \in {"unify", "rewrite", "write", "done"} =>
             Len(enriched_posts) = Len(TextPosts)
        /\ pc \in {"loop", "unify", "rewrite", "crashed"} =>
             \A k \in 1..Len(enriched_posts) : enriched_posts[k] = PreUnification(k)
        /\ pc \in {"write", "done"} =>
             \A k \in 1..Len(enriched_posts) :
                 enriched_posts[k] =
                     Merge(PreUnification(k),
                           [tags |-> Arr(RewriteTags(unified_tags,
                                            TagsOf(PreUnification(k)).items))])
        /\ Written => out_file.content = enriched_posts
        /\ pc = "crashed" =>
             \/ metadata.t \notin {"obj", "none"}
             \/ \E k \in 1..Len(enriched_posts) : ~Iterable(TagsOf(enriched_posts[k]))
             \/ unified_tags.t \notin {"obj", "none"}

C6_Witness ==
    /\ Loaded /\ pc = "done" /\ Written
    /\ Len(raw_file.posts) >= 2
    /\ "text" \notin DOMAIN raw_file.posts[1]
    /\ "text" \in DOMAIN raw_file.posts[2]
    /\ Len(out_file.content) = Len(raw_file.posts) - 1

\* the distinct tags of the records built
CollectedTags ==
    {tag \in {TagOrder[n] : n \in 1..Len(TagOrder)} :
        \E k \in 1..Len(enriched_posts) :
            \E j \in 1..Len(TagsOf(enriched_posts[k]).items) :
                TagsOf(enriched_posts[k]).items[j] = Str(tag)}

\* C7: when the unification call fails, get_unified_tags returns the identity
\* mapping over the distinct collected tags, the rewrite does not crash, and
\* every post's final tags equal its tags before unification.
C7_UnifyFailureIsIdentity ==
    (UnifyCallsMade # <<>> /\ Failed(UnifyCallsMade[1].resp)) =>
        /\ unified_tags = Obj([tag \in CollectedTags |-> Str(tag)])
        /\ pc \in {"rewrite", "write", "done"}
        /\ pc \in {"write", "done"} =>
             \A k \in 1..Len(enriched_posts) :
                 TagsOf(enriched_posts[k]) = TagsOf(PreUnification(k))
        /\ Written => out_file.content = enriched_posts

C7_Witness ==
    /\ pc = "done" /\ Written
    /\ UnifyCallsMade # <<>> /\ Failed(UnifyCallsMade[1].resp)
    /\ \E k \in 1..Len(out_file.content) :
         Len(out_file.content[k].tags.items) = 2

\* C8 (as claimed): for every service response the record extract_metadata
\* returns has exactly the fields line_count, language and tags, and tags is
\* a sequence of at most two strings.
C8_MetadataHasThreeFields ==
    metadata # NoValue =>
        /\ metadata.t = "obj"
        /\ DOMAIN metadata.f = {"line_count", "language", "tags"}
        /\ metadata.f.tags.t = "arr"
        /\ Len(metadata.f.tags.items) <= 2
        /\ \A j \in 1..Len(metadata.f.tags.items) :
             metadata.f.tags.items[j].t = "str"

\* C9: when loading fails on the encoding or on the JSON syntax, the run
\* aborts with a diagnostic: no output file is written, no service call made.
C9_LoadFailureAborts ==
    (raw_file.status \in {"bad_encoding", "bad_json"} /\ pc # "load") =>
        /\ pc = "aborted"
        /\ out_file = NoFile
        /\ calls = <<>>
        /\ log = IF raw_file.status = "bad_encoding"
                 THEN <<"unicode_decode_error">> ELSE <<"json_decode_error">>

C9_Witness ==
    /\ raw_file.status = "bad_encoding"
    /\ pc = "aborted"
    /\ log # <<>>

\* C10: when the unification result M is a mapping, each post's final tags
\* are its tags before unification mapped one by one through M, a tag M omits
\* kept as it is: same length, same order, repeats kept.
C10_TagsMappedElementwise ==
    (pc \in {"write", "done"} /\ unified_tags.t = "obj") =>
        /\ \A k \in 1..Len(enriched_posts) :
             LET before == TagsOf(PreUnification(k)).items
                 final == enriched_posts[k].tags.items
             IN  /\ Len(final) = Len(before)
                 /\ \A j \in 1..Len(before) :
                      final[j] = IF before[j].s \in DOMAIN unified_tags.f
                                 THEN unified_tags.f[before[j].s]
                                 ELSE before[j]
        /\ Written => out_file.content = enriched_posts

C10_Witness ==
    /\ pc = "done" /\ Written
    /\ \E k \in 1..Len(out_file.content) :
         /\ TagsOf(PreUnification(k)).items
                = <<Str("Motivation"), Str("Jobseekers"), Str("Job Hunting")>>
         /\ out_file.content[k].tags.items
                = <<Str("Motivation"), Str("Job Search"), Str("Job Search")>>

====
